---- MODULE Spec2Model ----
(***************************************************************************)
(* Model of the state/broadcast hub of src/dashboard.py: DashboardState    *)
(* (status fields, rolling log buffer, lock, SSE subscriber registry) and  *)
(* the per-connection handlers of DashboardHandler (_serve_sse and         *)
(* _serve_json).                                                           *)
(*                                                                         *)
(* Threads are producers (the bot thread and the logging handler calling   *)
(* update/_notify and add_log) and the server thread, which runs the       *)
(* handler of one viewer connection at a time (start_dashboard_server      *)
(* builds a plain HTTPServer; a viewer that reconnects is another          *)
(* connection).  A block that runs under `with self._lock` is one step,    *)
(* enabled only while the lock is free; add_log's block is two steps       *)
(* (append, then trim and release) with `lock` held in between.  to_dict   *)
(* takes no lock and reads one field per step.                             *)
(***************************************************************************)
EXTENDS Naturals, Integers, Sequences, FiniteSets, TLC

(* ------------------------------ bounds --------------------------------- *)
\* queue.Queue(maxsize=50) in the source (line 122), scaled down
QueueCap == 2
\* _max_log_lines = 500 in the source (line 72), scaled down
MaxLogLines == 2
\* get_logs(200) in _serve_sse (line 600), scaled down, kept below MaxLogLines
LastN == 1
\* number of update/add_log calls the producers make in one behaviour
MaxOps == 3

\* calls made when two producers run
MaxOpsMP == 2
\* calls made when two subscribers use the hub at once
MaxOpsHub == 4

Producers == {"p1", "p2"}
Viewers == {"v1", "v2"}
Lines == {"a", "b"}

\* the field mappings a caller passes to update
Updates ==
  { [touched |-> {"status", "combined_ask"}, status |-> "trading",
     combined_ask |-> 97],
    [touched |-> {"combined_ask"}, status |-> "", combined_ask |-> 96] }

NoSnap == [status |-> "", combined_ask |-> 0]

\* a field value json.dumps has no encoder for (a datetime, a Decimal, a set)
NotJson == "<datetime>"

\* the updates of a producer that also passes such a value
UpdatesEnc ==
  Updates \cup {[touched |-> {"status"}, status |-> NotJson, combined_ask |-> 0]}

VARIABLES
  status,        \* DashboardState.status
  combined_ask,  \* DashboardState.combined_ask (in hundredths)
  log_lines,     \* DashboardState._log_lines
  lock,          \* DashboardState._lock: "free" or the thread holding it
  subscribers,   \* DashboardState._subscribers: list of queues (by owner)
  queue,         \* the queue.Queue of each viewer's current connection
  ppc,           \* producer: position in update / add_log
  parg,          \* producer: argument of the call in progress
  psnap,         \* producer: dict being built by to_dict in _notify
  pmsg,          \* producer: msg of _send_event
  vpc,           \* viewer: position in _serve_sse / _serve_json
  vsnap,         \* viewer: dict being built by to_dict
  vlogs,         \* viewer: result of get_logs(200)
  vcur,          \* viewer: event taken by q.get, being written
  received,      \* viewer: stream events written to the connection
  opsleft,       \* update/add_log calls the producers have yet to make
  \* history (never read by the operations)
  hist,          \* SharedState after each completed mutation
  log_ids,       \* for each line of log_lines, the mutation that appended it
  published,     \* events in the order _send_event published them
  pmut,          \* producer: index in hist of the mutation of the call
  vmark,         \* viewer: marks taken along the connect sequence
  appended       \* every line passed to add_log, in append order

vars == << status, combined_ask, log_lines, lock, subscribers, queue,
           ppc, parg, psnap, pmsg, vpc, vsnap, vlogs, vcur, received,
           opsleft, hist, log_ids, published, pmut, vmark,
           appended >>

shared == << status, combined_ask, log_lines, hist, log_ids, appended >>
pvars == << ppc, parg, psnap, pmsg, pmut, opsleft >>
vvars == << vpc, vsnap, vlogs, vcur, received, vmark >>
hub == << subscribers, queue, published >>

(* ------------------------------ helpers -------------------------------- *)
InSeq(x, s) == \E i \in 1..Len(s) : s[i] = x

Min(a, b) == IF a < b THEN a ELSE b

\* Python's lst[-n:] for n >= 0: the last n items, and the whole list when
\* n = 0 (-0 is 0) or n >= len(lst)
SliceLast(s, n) ==
  IF n = 0 \/ n >= Len(s) THEN s
  ELSE SubSeq(s, Len(s) - n + 1, Len(s))

\* what a list operation leaves when it raises ValueError
ValueError == << "ValueError" >>

\* list.remove(x): removes the first occurrence, raises when there is none
RemoveFirst(s, x) ==
  IF ~InSeq(x, s) THEN ValueError
  ELSE LET i == CHOOSE k \in 1..Len(s) :
                  s[k] = x /\ \A j \in 1..(k-1) : s[j] # x
       IN  SubSeq(s, 1, i - 1) \o SubSeq(s, i + 1, Len(s))

StateMsg(snap, m) == [type |-> "state", snap |-> snap, line |-> "", mut |-> m]
LogMsg(line, m) == [type |-> "log", snap |-> NoSnap, line |-> line, mut |-> m]

NoMsg == [type |-> "none", snap |-> NoSnap, line |-> "", mut |-> 0]

\* the argument of a call: the fields of an update, or the line of an add_log
NoArg == [touched |-> {}, status |-> "", combined_ask |-> 0, line |-> ""]
UpdateArg(u) == [NoArg EXCEPT !.touched = u.touched, !.status = u.status,
                              !.combined_ask = u.combined_ask]
LogArg(line) == [NoArg EXCEPT !.line = line]

\* SharedState after a mutation, with the call that made it
Shared(st, ask, lg, arg) ==
  [status |-> st, combined_ask |-> ask, log |-> lg, arg |-> arg]

\* rd1, rd2, logs: mutations completed when to_dict read its first and its
\* last field and when get_logs ran; logids: the appends whose lines get_logs
\* returned; sub: events published when subscribe ran; dropped: a publish
\* found the queue full
NoMark == [rd1 |-> 0, rd2 |-> 0, logs |-> 0, sub |-> 0, logids |-> << >>,
           dropped |-> FALSE, kind |-> "none", unsub |-> -1]

(* --------------------------- DashboardState ---------------------------- *)
\* mutant of TrimLog: trims one line late (off by one)
TrimLogLate(lines) ==
  IF Len(lines) > MaxLogLines + 1 THEN SliceLast(lines, MaxLogLines + 1)
  ELSE lines

\* mutant of TrimLog: evicts the newest lines instead of the oldest
TrimLogOldest(lines) ==
  IF Len(lines) > MaxLogLines THEN SubSeq(lines, 1, MaxLogLines) ELSE lines

\* add_log, lines 81-82: keep the last _max_log_lines lines
TrimLog(lines) ==
  IF Len(lines) > MaxLogLines THEN SliceLast(lines, MaxLogLines) ELSE lines

\* get_logs, line 87: list(self._log_lines[-last_n:])
GetLogs(lines, last_n) == SliceLast(lines, last_n)

\* to_dict, line 91: the dict gets "status"
ToDictStatus(st) == [NoSnap EXCEPT !.status = st]

\* mutant of ToDictAsk: the key is filled from another attribute
ToDictAskWrong(d, ask) == d

\* to_dict, line 102: the dict gets "combined_ask"
ToDictAsk(d, ask) == [d EXCEPT !.combined_ask = ask]

\* json.dumps, lines 133, 582, 598: raises TypeError when a value of the dict
\* has no encoder
JsonEncodable(d) == d.status # NotJson

\* mutant of LockAfterAddLog: _send_event is called inside the with block
LockAfterAddLogHeld(p) == p

\* add_log, lines 79-83: the with block ends, and the lock is released,
\* before _send_event is called
LockAfterAddLog(p) == "free"

\* update: the given fields are merged into the status record
MergeStatus(cur, u) == IF "status" \in u.touched THEN u.status ELSE cur
MergeAsk(cur, u) == IF "combined_ask" \in u.touched THEN u.combined_ask ELSE cur

\* put_nowait raises queue.Full when the queue holds maxsize items
QueueFull(q) == Len(q) >= QueueCap

\* mutant of PutWaits: q.put(msg), which blocks while the queue is full
PutWaitsBlocking(q) == QueueFull(q)

\* put_nowait, line 141: whether the put has to wait for room in q; it never
\* does (a blocking q.put would wait while q is full)
PutWaits(q) == FALSE

\* mutant of SendQueues: the event is put at the front of the queue
SendQueuesFront(subs, qs, msg) ==
  [v \in Viewers |->
     IF InSeq(v, subs) /\ ~QueueFull(qs[v]) THEN << msg >> \o qs[v] ELSE qs[v]]

\* mutant of SendQueues: the first queue.Full ends the loop
SendQueuesStopAtFull(subs, qs, msg) ==
  [v \in Viewers |->
     IF \E k \in 1..Len(subs) :
          subs[k] = v /\ \A j \in 1..k : ~QueueFull(qs[subs[j]])
     THEN Append(qs[v], msg) ELSE qs[v]]

\* _send_event, lines 139-143: the queues after the put_nowait loop
SendQueues(subs, qs, msg) ==
  [v \in Viewers |->
     IF InSeq(v, subs) /\ ~QueueFull(qs[v]) THEN Append(qs[v], msg) ELSE qs[v]]

\* mutant of SendSubscribers: the dead queues are collected, never removed
SendSubscribersKeep(subs, qs) == subs

\* mutant of SendSubscribers: a dead queue empties the whole registry
SendSubscribersClear(subs, qs) ==
  IF \E k \in 1..Len(subs) : QueueFull(qs[subs[k]]) THEN << >> ELSE subs

\* _send_event, lines 139-145: the registry after the dead queues are removed
SendSubscribers(subs, qs) ==
  SelectSeq(subs, LAMBDA v : ~QueueFull(qs[v]))

\* mutant of QueueTake: the newest event is taken first
QueueTakeNewest(q) == [item |-> q[Len(q)], rest |-> SubSeq(q, 1, Len(q) - 1)]

\* q.get, line 609: the oldest event of a non-empty queue.Queue, and the rest
QueueTake(q) == [item |-> Head(q), rest |-> Tail(q)]

\* mutant of Unsubscribed: the queue is left in the registry
UnsubscribedNoop(subs, v) == subs

\* mutant of Unsubscribed: remove without the membership test
UnsubscribedUnguarded(subs, v) == RemoveFirst(subs, v)

\* unsubscribe, lines 129-130
Unsubscribed(subs, v) == IF InSeq(v, subs) THEN RemoveFirst(subs, v) ELSE subs

(* ------------------------------ producer ------------------------------- *)
\* update(fields): merge the fields under exclusive access, go on to _notify
Update(p, u) ==
  /\ ppc[p] = "idle" /\ opsleft > 0
  /\ lock = "free"
  /\ status' = MergeStatus(status, u)
  /\ combined_ask' = MergeAsk(combined_ask, u)
  /\ hist' = Append(hist, Shared(status', combined_ask', log_lines, UpdateArg(u)))
  /\ pmut' = [pmut EXCEPT ![p] = Len(hist) + 1]
  /\ ppc' = [ppc EXCEPT ![p] = "notify_rd1"]
  /\ opsleft' = opsleft - 1
  /\ UNCHANGED << log_lines, log_ids, appended, lock, hub, vvars, parg, psnap,
                  pmsg >>

\* _notify -> to_dict, line 91: "status": self.status
NotifyRead1(p) ==
  /\ ppc[p] = "notify_rd1"
  /\ psnap' = [psnap EXCEPT ![p] = ToDictStatus(status)]
  /\ ppc' = [ppc EXCEPT ![p] = "notify_rd2"]
  /\ UNCHANGED << shared, lock, hub, vvars, parg, pmsg, pmut, opsleft >>

\* _notify -> to_dict, line 102: "combined_ask": self.combined_ask; then
\* line 133 builds the ("state", json) message.  When json.dumps raises,
\* _send_event is never called and the exception ends the producer's call.
NotifyRead2(p) ==
  /\ ppc[p] = "notify_rd2"
  /\ LET d == ToDictAsk(psnap[p], combined_ask) IN
       IF JsonEncodable(d)
       THEN /\ pmsg' = [pmsg EXCEPT ![p] = StateMsg(d, pmut[p])]
            /\ ppc' = [ppc EXCEPT ![p] = "send"]
            /\ pmut' = pmut
       ELSE /\ pmsg' = pmsg
            /\ ppc' = [ppc EXCEPT ![p] = "idle"]
            /\ pmut' = [pmut EXCEPT ![p] = 0]
  /\ psnap' = [psnap EXCEPT ![p] = NoSnap]
  /\ UNCHANGED << shared, lock, hub, vvars, parg, opsleft >>

\* add_log, lines 79-80: take the lock and append
AddLogAppend(p, line) ==
  /\ ppc[p] = "idle" /\ opsleft > 0
  /\ lock = "free"
  /\ lock' = p
  /\ parg' = [parg EXCEPT ![p] = line]
  /\ log_lines' = Append(log_lines, line)
  /\ log_ids' = Append(log_ids, Len(hist) + 1)
  /\ appended' = Append(appended, line)
  /\ pmut' = [pmut EXCEPT ![p] = Len(hist) + 1]
  /\ ppc' = [ppc EXCEPT ![p] = "log_trim"]
  /\ opsleft' = opsleft - 1
  /\ UNCHANGED << status, combined_ask, hist, hub, vvars, psnap, pmsg >>

\* add_log, lines 81-83: trim, release, build the ("log", line) message
AddLogTrim(p) ==
  /\ ppc[p] = "log_trim" /\ lock = p
  /\ log_lines' = TrimLog(log_lines)
  /\ log_ids' = SubSeq(log_ids, Len(log_ids) - Len(log_lines') + 1, Len(log_ids))
  /\ hist' = Append(hist, Shared(status, combined_ask, log_lines',
                                LogArg(parg[p])))
  /\ lock' = LockAfterAddLog(p)
  /\ pmsg' = [pmsg EXCEPT ![p] = LogMsg(parg[p], pmut[p])]
  /\ parg' = [parg EXCEPT ![p] = ""]
  /\ ppc' = [ppc EXCEPT ![p] = "send"]
  /\ UNCHANGED << status, combined_ask, appended, hub, vvars, psnap, pmut,
                  opsleft >>

\* _send_event, lines 136-145: under the lock, enqueue to every subscriber
\* and drop the full ones
SendEvent(p) ==
  /\ ppc[p] = "send"
  /\ lock = "free"
  /\ \A v \in Viewers : InSeq(v, subscribers) => ~PutWaits(queue[v])
  /\ queue' = SendQueues(subscribers, queue, pmsg[p])
  /\ subscribers' = SendSubscribers(subscribers, queue)
  /\ published' = Append(published, pmsg[p])
  /\ vmark' = [v \in Viewers |->
                 IF InSeq(v, subscribers) /\ QueueFull(queue[v])
                 THEN [vmark[v] EXCEPT !.dropped = TRUE] ELSE vmark[v]]
  /\ pmsg' = [pmsg EXCEPT ![p] = NoMsg]
  /\ pmut' = [pmut EXCEPT ![p] = 0]
  /\ ppc' = [ppc EXCEPT ![p] = "idle"]
  /\ UNCHANGED << shared, lock, parg, psnap, opsleft,
                  vpc, vsnap, vlogs, vcur, received >>

(* ------------------------------- viewer -------------------------------- *)
\* connections are interchangeable: they are numbered in the order in which
\* the server accepts them
Earlier(w, v) == w = "v1" /\ v = "v2"

\* start_dashboard_server, line 624: HTTPServer has one thread, which takes
\* the next connection when the handler of the previous one has returned
\* or raised
ServerFree == \A w \in Viewers : vpc[w] \in {"idle", "off", "closed", "failed"}

\* do_GET: the server thread takes connection v and runs its handler, for
\* GET /events (sse) or GET /api/state (json)
Connect(v, kind) ==
  /\ vpc[v] = "idle"
  /\ ServerFree
  /\ \A w \in Viewers : Earlier(w, v) => vpc[w] # "idle"
  /\ vpc' = [vpc EXCEPT ![v] = "rd1"]
  /\ vmark' = [vmark EXCEPT ![v] = [NoMark EXCEPT !.kind = kind]]
  /\ UNCHANGED << shared, lock, hub, pvars, vsnap, vlogs, vcur, received >>

\* to_dict, line 91: "status": self.status
ToDictRead1(v) ==
  /\ vpc[v] = "rd1"
  /\ vsnap' = [vsnap EXCEPT ![v] = ToDictStatus(status)]
  /\ vmark' = [vmark EXCEPT ![v].rd1 = Len(hist)]
  /\ vpc' = [vpc EXCEPT ![v] = "rd2"]
  /\ UNCHANGED << shared, lock, hub, pvars, vlogs, vcur, received >>

\* to_dict, line 102: "combined_ask": self.combined_ask
ToDictRead2(v) ==
  /\ vpc[v] = "rd2"
  /\ vsnap' = [vsnap EXCEPT ![v] = ToDictAsk(vsnap[v], combined_ask)]
  /\ vmark' = [vmark EXCEPT ![v].rd2 = Len(hist)]
  /\ vpc' = [vpc EXCEPT ![v] =
               IF vmark[v].kind = "json" THEN "json_write" ELSE "get_logs"]
  /\ UNCHANGED << shared, lock, hub, pvars, vlogs, vcur, received >>

\* _serve_json, lines 582-587: encode and write the body; the request is
\* over, also when json.dumps or the write raises
JsonWrite(v) ==
  /\ vpc[v] = "json_write"
  /\ vsnap' = [vsnap EXCEPT ![v] = NoSnap]
  /\ vmark' = [vmark EXCEPT ![v] = NoMark]
  /\ vpc' = [vpc EXCEPT ![v] = "closed"]
  /\ UNCHANGED << shared, lock, hub, pvars, vlogs, vcur, received >>

\* get_logs, lines 86-87: under the lock, copy the last 200 lines
GetLogsCall(v) ==
  /\ vpc[v] = "get_logs"
  /\ lock = "free"
  /\ vlogs' = [vlogs EXCEPT ![v] = GetLogs(log_lines, LastN)]
  /\ vmark' = [vmark EXCEPT ![v].logs = Len(hist),
                            ![v].logids = GetLogs(log_ids, LastN)]
  /\ vpc' = [vpc EXCEPT ![v] = "init_write"]
  /\ UNCHANGED << shared, lock, hub, pvars, vsnap, vcur, received >>

\* _serve_sse, lines 598-603: encode and write the init event.  A json.dumps
\* that raises, or a failed write, raises outside the try block: the handler
\* ends without ever subscribing.
InitWrite(v, ok) ==
  /\ vpc[v] = "init_write"
  /\ ok => JsonEncodable(vsnap[v])
  /\ vsnap' = [vsnap EXCEPT ![v] = NoSnap]
  /\ vlogs' = [vlogs EXCEPT ![v] = << >>]
  /\ vmark' = [vmark EXCEPT ![v] = IF ok THEN vmark[v] ELSE NoMark]
  /\ vpc' = [vpc EXCEPT ![v] = IF ok THEN "subscribe" ELSE "failed"]
  /\ UNCHANGED << shared, lock, hub, pvars, vcur, received >>

\* subscribe, lines 122-125: a new queue, registered under the lock
Subscribe(v) ==
  /\ vpc[v] = "subscribe"
  /\ lock = "free"
  /\ queue' = [queue EXCEPT ![v] = << >>]
  /\ subscribers' = Append(subscribers, v)
  /\ vmark' = [vmark EXCEPT ![v].sub = Len(published)]
  /\ vpc' = [vpc EXCEPT ![v] = "streaming"]
  /\ UNCHANGED << shared, lock, published, pvars,
                  vsnap, vlogs, vcur, received >>

\* _serve_sse, line 609: q.get returns the oldest event
QueueGet(v) ==
  /\ vpc[v] = "streaming"
  /\ queue[v] # << >>
  /\ vcur' = [vcur EXCEPT ![v] = QueueTake(queue[v]).item]
  /\ queue' = [queue EXCEPT ![v] = QueueTake(queue[v]).rest]
  /\ vpc' = [vpc EXCEPT ![v] = "ev_write"]
  /\ UNCHANGED << shared, lock, subscribers, published, pvars,
                  vsnap, vlogs, received, vmark >>

\* _serve_sse, lines 610-611 and 616-617: write the event; a failed write
\* leaves the loop
EventWrite(v, ok) ==
  /\ vpc[v] = "ev_write"
  /\ received' = [received EXCEPT ![v] =
                    IF ok THEN Append(received[v], vcur[v]) ELSE received[v]]
  /\ vcur' = [vcur EXCEPT ![v] = NoMsg]
  /\ vpc' = [vpc EXCEPT ![v] = IF ok THEN "streaming" ELSE "unsubscribe"]
  /\ UNCHANGED << shared, lock, hub, pvars, vsnap, vlogs, vmark >>

\* _serve_sse, lines 612-617: q.get timed out on an empty queue and the
\* keepalive write failed (a keepalive that is written changes nothing)
KeepaliveFail(v) ==
  /\ vpc[v] = "streaming"
  /\ queue[v] = << >>
  /\ vpc' = [vpc EXCEPT ![v] = "unsubscribe"]
  /\ UNCHANGED << shared, lock, hub, pvars,
                  vsnap, vlogs, vcur, received, vmark >>

\* _serve_sse, line 619 -> unsubscribe, lines 128-130: under the lock,
\* remove the queue if it is registered; the connection and its queue are gone
Unsubscribe(v) ==
  /\ vpc[v] = "unsubscribe"
  /\ lock = "free"
  /\ subscribers' = Unsubscribed(subscribers, v)
  /\ queue' = [queue EXCEPT ![v] = << >>]
  /\ received' = [received EXCEPT ![v] = << >>]
  /\ vmark' = [vmark EXCEPT ![v] =
                 [NoMark EXCEPT !.dropped = vmark[v].dropped,
                                !.unsub = Len(published)]]
  /\ vpc' = [vpc EXCEPT ![v] = "closed"]
  /\ UNCHANGED << shared, lock, published, pvars, vsnap, vlogs, vcur >>

(* ------------------------------- Init ---------------------------------- *)
InitCommon ==
  /\ status = "starting"
  /\ combined_ask = 0
  /\ log_lines = << >>
  /\ lock = "free"
  /\ subscribers = << >>
  /\ queue = [v \in Viewers |-> << >>]
  /\ parg = [p \in Producers |-> ""]
  /\ psnap = [p \in Producers |-> NoSnap]
  /\ pmsg = [p \in Producers |-> NoMsg]
  /\ vsnap = [v \in Viewers |-> NoSnap]
  /\ vlogs = [v \in Viewers |-> << >>]
  /\ vcur = [v \in Viewers |-> NoMsg]
  /\ received = [v \in Viewers |-> << >>]
  /\ hist = << Shared("starting", 0, << >>, NoArg) >>
  /\ appended = << >>
  /\ log_ids = << >>
  /\ published = << >>
  /\ pmut = [p \in Producers |-> 0]
  /\ vmark = [v \in Viewers |-> NoMark]

\* one producer thread (the bot), as the source's comment on shared state
\* says, and one viewer connection
Init ==
  /\ InitCommon
  /\ opsleft = MaxOps
  /\ ppc = [p \in Producers |-> IF p = "p1" THEN "idle" ELSE "off"]
  /\ vpc = [v \in Viewers |-> IF v = "v1" THEN "idle" ELSE "off"]

(* ------------------------------- Next ---------------------------------- *)
ProducerStep(p) ==
  \/ \E u \in Updates : Update(p, u)
  \/ NotifyRead1(p)
  \/ NotifyRead2(p)
  \/ \E line \in Lines : AddLogAppend(p, line)
  \/ AddLogTrim(p)
  \/ SendEvent(p)

ViewerStep(v) ==
  \/ \E kind \in {"sse", "json"} : Connect(v, kind)
  \/ ToDictRead1(v)
  \/ ToDictRead2(v)
  \/ JsonWrite(v)
  \/ GetLogsCall(v)
  \/ \E ok \in BOOLEAN : InitWrite(v, ok)
  \/ Subscribe(v)
  \/ QueueGet(v)
  \/ \E ok \in BOOLEAN : EventWrite(v, ok)
  \/ KeepaliveFail(v)
  \/ Unsubscribe(v)

Next ==
  \/ \E p \in Producers : ProducerStep(p)
  \/ \E v \in Viewers : ViewerStep(v)

Spec == Init /\ [][Next]_vars

\* the progress steps of a call in flight; the scheduler runs the producer
\* thread, and every block under the lock ends by releasing it
ProducerProgress(p) ==
  NotifyRead1(p) \/ NotifyRead2(p) \/ AddLogTrim(p) \/ SendEvent(p)

\* no fairness for the viewers: a handler may stay in a write, or never
\* drain its queue
SpecLive == Spec /\ \A p \in Producers : WF_vars(ProducerProgress(p))

\* the steps a running handler takes by itself while its writes succeed: the
\* scheduler runs the server thread, the lock is released by every holder,
\* and q.get returns a queued event.  A write fails only when the peer has
\* gone, which nothing obliges to happen.
HandlerProgress(v) ==
  \/ ToDictRead1(v)
  \/ ToDictRead2(v)
  \/ JsonWrite(v)
  \/ GetLogsCall(v)
  \/ InitWrite(v, TRUE)
  \/ Subscribe(v)
  \/ QueueGet(v)
  \/ EventWrite(v, TRUE)
  \/ Unsubscribe(v)

SpecFair ==
  /\ Spec
  /\ \A p \in Producers : WF_vars(ProducerProgress(p))
  /\ \A v \in Viewers : WF_vars(HandlerProgress(v))

\* a producer whose updates can carry a value without a JSON encoder
ProducerStepEnc(p) ==
  \/ \E u \in UpdatesEnc : Update(p, u)
  \/ NotifyRead1(p)
  \/ NotifyRead2(p)
  \/ \E line \in Lines : AddLogAppend(p, line)
  \/ AddLogTrim(p)
  \/ SendEvent(p)

NextEnc ==
  \/ \E p \in Producers : ProducerStepEnc(p)
  \/ \E v \in Viewers : ViewerStep(v)

SpecEnc == Init /\ [][NextEnc]_vars

\* two viewer connections, served one after the other by the server thread
InitTwo ==
  /\ InitCommon
  /\ opsleft = MaxOps
  /\ ppc = [p \in Producers |-> IF p = "p1" THEN "idle" ELSE "off"]
  /\ vpc = [v \in Viewers |-> "idle"]

SpecTwo == InitTwo /\ [][Next]_vars

\* two producer threads (the bot thread calling update, a thread that logs
\* through DashboardLogHandler) and one viewer connection
InitMP ==
  /\ InitCommon
  /\ opsleft = MaxOpsMP
  /\ ppc = [p \in Producers |-> "idle"]
  /\ vpc = [v \in Viewers |-> IF v = "v1" THEN "idle" ELSE "off"]

SpecMP == InitMP /\ [][Next]_vars

\* DashboardState used through its own methods by two subscribers at once,
\* while a logging thread publishes through add_log: each client calls
\* subscribe(), runs the q.get/write loop of _serve_sse and calls
\* unsubscribe() when a write fails
InitHub ==
  /\ InitCommon
  /\ opsleft = MaxOpsHub
  /\ ppc = [p \in Producers |-> IF p = "p1" THEN "idle" ELSE "off"]
  /\ vpc = [v \in Viewers |-> "subscribe"]

HubClientStep(v) ==
  \/ Subscribe(v)
  \/ QueueGet(v)
  \/ \E ok \in BOOLEAN : EventWrite(v, ok)
  \/ KeepaliveFail(v)
  \/ Unsubscribe(v)

LoggerStep(p) ==
  \/ \E line \in Lines : AddLogAppend(p, line)
  \/ AddLogTrim(p)
  \/ SendEvent(p)

NextHub ==
  \/ \E p \in Producers : LoggerStep(p)
  \/ \E v \in Viewers : HubClientStep(v)

SpecHub == InitHub /\ [][NextHub]_vars

(* ------------------------------ properties ----------------------------- *)
\* the last min(n, Len(s)) items of s, oldest first
LastLines(s, n) == SubSeq(s, Len(s) - Min(n, Len(s)) + 1, Len(s))

Fields(h) == [status |-> h.status, combined_ask |-> h.combined_ask]

Streaming(v) == vpc[v] \in {"streaming", "ev_write"}

\* the events enqueued so far to v's queue, oldest first: written to the
\* connection, taken by q.get and being written, still queued
Delivered(v) ==
  received[v]
    \o (IF vpc[v] = "ev_write" THEN << vcur[v] >> ELSE << >>)
    \o queue[v]

\* C1: a subscriber that was never dropped for a full queue has been handed
\* exactly the events published since its subscribe() returned, each once
\* and in publish order (written, being written, or waiting in its queue).
C1_EveryEventOnceInOrder ==
  \A v \in Viewers :
    (Streaming(v) /\ ~vmark[v].dropped) =>
      Delivered(v) = SubSeq(published, vmark[v].sub + 1, Len(published))

\* a viewer that subscribed mid-stream has written one later event and holds
\* another in its queue
C1_Witness ==
  \E v \in Viewers :
    /\ Streaming(v) /\ ~vmark[v].dropped
    /\ vmark[v].sub >= 1
    /\ Len(received[v]) >= 1 /\ Len(queue[v]) >= 1

C3_PublishTerminates ==
  \A p \in Producers : (ppc[p] \notin {"idle", "off"}) ~> (ppc[p] = "idle")

\* the producer has returned from a publish that found a full queue, whose
\* handler has not drained it
C3_Witness ==
  \E v \in Viewers :
    /\ vmark[v].dropped /\ Streaming(v) /\ Len(queue[v]) = QueueCap
    /\ \A p \in Producers : ppc[p] \in {"idle", "off"}

\* C4: the Init event of a new viewer (snapshot read in one piece) shows one
\* state SharedState has been in: its status fields and the last
\* min(200, length) lines of its log buffer.
C4_InitOneInstant ==
  \A v \in Viewers :
    (vpc[v] = "init_write" /\ vmark[v].rd1 = vmark[v].rd2) =>
      \E i \in 1..Len(hist) :
        /\ Fields(hist[i]) = vsnap[v]
        /\ LastLines(hist[i].log, LastN) = vlogs[v]

\* C5: a streaming viewer that was never dropped has been handed the event of
\* every mutation made after its Init was read (get_logs, the later of the
\* two reads) and published since.
C5_NoGapAfterInit ==
  \A v \in Viewers :
    (Streaming(v) /\ ~vmark[v].dropped) =>
      \A i \in 1..Len(published) :
        published[i].mut > vmark[v].logs => InSeq(published[i], Delivered(v))

\* C6: no stream event handed to a viewer repeats its Init: a Log event is
\* never for a line of the Init log replay, and a State event is never for
\* a mutation made before the Init snapshot was read.
C6_NoDuplicateAfterInit ==
  \A v \in Viewers :
    Streaming(v) =>
      \A k \in 1..Len(Delivered(v)) :
        LET m == Delivered(v)[k] IN
          /\ m.type = "log" => ~InSeq(m.mut, vmark[v].logids)
          /\ m.type = "state" => m.mut > vmark[v].rd1

\* C7: whenever the lock is free (so in every state a thread that takes the
\* lock can observe) the log buffer holds at most K lines.
C7_LogBounded ==
  lock = "free" => Len(log_lines) <= MaxLogLines

\* more than K lines were appended and the buffer is full
C7_Witness ==
  lock = "free" /\ Len(appended) > MaxLogLines /\ Len(log_lines) = MaxLogLines

\* C8: after any sequence of add_log calls the buffer is the last
\* min(K, number of calls) appended lines, in append order.
C8_LogIsLastK ==
  lock = "free" => log_lines = LastLines(appended, MaxLogLines)

\* lines were evicted and the same text was appended twice in a row
C8_Witness ==
  /\ lock = "free" /\ Len(appended) > MaxLogLines
  /\ appended[Len(appended)] = appended[Len(appended) - 1]

\* C9: each update leaves every touched field at the value given and every
\* other field as it was; the State event of an update carries the full
\* snapshot after it; and to_dict read with no update in between returns it.
C9_UpdateSnapshot ==
  /\ \A i \in 2..Len(hist) :
       /\ hist[i].status = IF "status" \in hist[i].arg.touched
                           THEN hist[i].arg.status ELSE hist[i-1].status
       /\ hist[i].combined_ask = IF "combined_ask" \in hist[i].arg.touched
                                 THEN hist[i].arg.combined_ask
                                 ELSE hist[i-1].combined_ask
  /\ \A k \in 1..Len(published) :
       published[k].type = "state" =>
         published[k].snap = Fields(hist[published[k].mut])
  /\ \A v \in Viewers :
       (vpc[v] \in {"json_write", "get_logs"} /\ vmark[v].rd1 = Len(hist)) =>
         vsnap[v] = Fields(hist[Len(hist)])

\* the State event of an update of combined_ask alone still carries the
\* status set by an earlier update
C9_Witness ==
  \E k \in 1..Len(published) :
    /\ published[k].type = "state"
    /\ hist[published[k].mut].arg.touched = {"combined_ask"}
    /\ published[k].snap = [status |-> "trading", combined_ask |-> 96]

\* C10: every snapshot a viewer has read, for an Init event or for
\* /api/state, equals the status fields after some completed mutation.
C10_NoPartialSnapshot ==
  \A v \in Viewers :
    vpc[v] \in {"json_write", "get_logs", "init_write"} =>
      \E i \in 1..Len(hist) : Fields(hist[i]) = vsnap[v]

\* C11: once unsubscribe(handle) has returned, the handle is not in the
\* registry, and no publish from then on puts anything in its queue.
C11_UnsubscribedGetsNothing ==
  [][\A v \in Viewers :
       /\ vmark'[v].unsub >= 0 => ~InSeq(v, subscribers')
       /\ (vmark[v].unsub >= 0 /\ published' # published)
            => queue'[v] = queue[v]]_vars

\* a handler that was registered and never dropped has unsubscribed, and an
\* event was published after that
C11_Witness ==
  \E v \in Viewers :
    /\ vmark[v].unsub >= 0 /\ ~vmark[v].dropped
    /\ Len(published) > vmark[v].unsub
    /\ queue[v] = << >>

\* C12: unsubscribe never raises and is idempotent: for every handle,
\* registered, dropped by a publish, already unsubscribed or never
\* registered, the registry after unsubscribe is the registry without that
\* handle, every other subscriber kept in place; a second call changes
\* nothing.
C12_UnsubscribeIdempotent ==
  \A h \in Viewers :
    LET once == Unsubscribed(subscribers, h) IN
      /\ once # ValueError
      /\ once = SelectSeq(subscribers, LAMBDA x : x # h)
      /\ ~InSeq(h, subscribers) => once = subscribers
      /\ Unsubscribed(once, h) = once

\* a subscriber dropped by a publish has had its handler call unsubscribe
\* while another subscriber is registered
C12_Witness ==
  \E v, w \in Viewers :
    /\ v # w
    /\ vmark[v].dropped /\ vmark[v].unsub >= 0
    /\ InSeq(w, subscribers)

\* C13: what a subscriber is handed, dropped for a full queue or not, is a
\* subsequence of the publish order: every event it holds was published, and
\* two events it holds are in the order they were published in.
C13_DeliveredInPublishOrder ==
  \A v \in Viewers :
    LET d == Delivered(v) IN
      \E f \in [1..Len(d) -> 1..Len(published)] :
        /\ \A k \in 1..Len(d) : published[f[k]] = d[k]
        /\ \A k, l \in 1..Len(d) : k < l => f[k] < f[l]

\* a subscriber was dropped with events omitted and its handler has written
\* two events to the connection
C13_Witness ==
  \E v \in Viewers :
    /\ vmark[v].dropped /\ Len(received[v]) >= 2
    /\ Len(published) > vmark[v].sub + 2

\* the mutations after which the status fields were exactly snap
SnapshotOf(snap) == {i \in 1..Len(hist) : Fields(hist[i]) = snap}

\* snapshot a was the state only before snapshot b ever was
OlderSnapshot(a, b) ==
  /\ SnapshotOf(a) # {} /\ SnapshotOf(b) # {}
  /\ \A i \in SnapshotOf(a) : \A j \in SnapshotOf(b) : i < j

\* C14 (Log events): with two producers, a subscriber that was never dropped
\* is handed Log events in the order the lines were appended to the buffer.
C14_LogEventsInBufferOrder ==
  \A v \in Viewers :
    ~vmark[v].dropped =>
      \A k, l \in 1..Len(Delivered(v)) :
        LET a == Delivered(v)[k]
            b == Delivered(v)[l]
        IN  (k < l /\ a.type = "log" /\ b.type = "log") => a.mut < b.mut

\* C14 (State events): with two producers, a State event handed to a
\* subscriber later never carries an older snapshot than one handed earlier.
C14_StateEventsNeverOlder ==
  \A v \in Viewers :
    ~vmark[v].dropped =>
      \A k, l \in 1..Len(Delivered(v)) :
        LET a == Delivered(v)[k]
            b == Delivered(v)[l]
        IN  (k < l /\ a.type = "state" /\ b.type = "state")
              => ~OlderSnapshot(b.snap, a.snap)

\* C14: with two producers calling update/add_log concurrently, every
\* subscriber that was never dropped is handed the events in the one order
\* the mutations were made in: Log events in log-buffer order, and no State
\* event with an older snapshot after one with a newer snapshot.
C14_ProducersOneOrder ==
  C14_LogEventsInBufferOrder /\ C14_StateEventsNeverOlder

\* C15: for every n >= 0, n = 0 and n larger than the buffer included,
\* get_logs(n) returns the last min(n, buffer length) lines of the buffer,
\* oldest first; and the get_logs call of a handler leaves the buffer as it
\* was.
C15_GetLogsLastN ==
  [][/\ \A n \in 0..(MaxLogLines + 2) :
          GetLogs(log_lines, n) = LastLines(log_lines, n)
     /\ \A v \in Viewers :
          (vpc[v] = "get_logs" /\ vpc'[v] = "init_write")
            => log_lines' = log_lines]_vars

\* C16: once a subscriber has been dropped for a full queue, any other
\* subscriber, one that subscribed after the drop included, is registered
\* and is handed every event published since its subscribe() returned, in
\* order, while the dropped one stays out of the registry.
C16_FreshSubscribeAfterDrop ==
  \A v, w \in Viewers :
    (v # w /\ vmark[w].dropped /\ Streaming(v) /\ ~vmark[v].dropped) =>
      /\ InSeq(v, subscribers)
      /\ ~InSeq(w, subscribers)
      /\ Delivered(v) = SubSeq(published, vmark[v].sub + 1, Len(published))

\* w never drained its queue and was dropped by the publish after the one
\* that filled it; v subscribed after that publish and has written a later
\* event to its connection
C16_Witness ==
  \E v, w \in Viewers :
    /\ v # w
    /\ vmark[w].dropped /\ vpc[w] = "streaming"
    /\ received[w] = << >> /\ Len(queue[w]) = QueueCap
    /\ vmark[v].sub >= vmark[w].sub + QueueCap + 1
    /\ InSeq(v, subscribers) /\ Len(received[v]) >= 1

\* C17: several viewers can stream at once: while one viewer is streaming, a
\* viewer that connects is accepted by the server (its handler starts, to
\* send its Init and subscribe).
C17_ViewersInParallel ==
  \A a, b \in Viewers :
    (a # b /\ Streaming(a) /\ vpc[b] = "idle") => ENABLED Connect(b, "sse")

\* C18: a consumer failure stays local.  A publish, also one that drops a
\* full subscriber, appends the event to the queue of every other registered
\* subscriber with room and leaves it registered; a handler closing after a
\* write failure removes only its own queue and leaves the other queues as
\* they were; neither changes the status fields or the log buffer.
C18_FailureStaysLocal ==
  [][/\ published' # published =>
          /\ \A v \in Viewers :
               (InSeq(v, subscribers) /\ ~QueueFull(queue[v])) =>
                 /\ queue'[v] = Append(queue[v], published'[Len(published')])
                 /\ InSeq(v, subscribers')
          /\ << status, combined_ask, log_lines >>' =
               << status, combined_ask, log_lines >>
     /\ \A v \in Viewers :
          (vpc[v] = "unsubscribe" /\ vpc'[v] = "closed") =>
            /\ \A w \in Viewers \ {v} :
                 /\ InSeq(w, subscribers') = InSeq(w, subscribers)
                 /\ queue'[w] = queue[w]
            /\ ~InSeq(v, subscribers')
            /\ << status, combined_ask, log_lines >>' =
                 << status, combined_ask, log_lines >>]_vars

\* the publish that dropped w, which never drained its queue, reached v,
\* which had subscribed before it and is still registered
C18_Witness ==
  \E v, w \in Viewers :
    /\ v # w
    /\ vmark[w].dropped /\ vpc[w] = "streaming"
    /\ received[w] = << >> /\ Len(queue[w]) = QueueCap
    /\ vmark[v].sub < vmark[w].sub + QueueCap + 1
    /\ Streaming(v) /\ ~vmark[v].dropped /\ InSeq(v, subscribers)
    /\ InSeq(published[vmark[w].sub + QueueCap + 1], Delivered(v))

\* C19: a subscriber removed from the registry for a full queue is
\* disconnected: its handler eventually reaches Closed.
C19_DroppedEventuallyClosed ==
  \A v \in Viewers : vmark[v].dropped ~> (vpc[v] = "closed")

\* C20 as stated: an ended handler's queue is not in the registry, and every
\* registered queue belongs to a handler that is still in Streaming.
C20_RegisteredIsStreaming ==
  \A v \in Viewers :
    /\ vpc[v] \in {"closed", "failed"} => ~InSeq(v, subscribers)
    /\ InSeq(v, subscribers) => Streaming(v)

\* C20: no subscriber outlives its handler: an ended handler's queue is not
\* in the registry, and every registered queue belongs to a handler that is
\* in Streaming or has left it on a write failure and has yet to complete
\* its unsubscribe().
C20_NoSubscriberOutlivesHandler ==
  \A v \in Viewers :
    /\ vpc[v] \in {"closed", "failed"} => ~InSeq(v, subscribers)
    /\ InSeq(v, subscribers) => (Streaming(v) \/ vpc[v] = "unsubscribe")

\* a handler that was registered, and not dropped, ended on a write failure
\* and the registry is empty
C20_Witness ==
  \E v \in Viewers :
    /\ vpc[v] = "closed" /\ vmark[v].unsub >= 0 /\ ~vmark[v].dropped
    /\ subscribers = << >>

\* the call of p returns in this step
CallReturns(p) == ppc[p] \notin {"idle", "off"} /\ ppc'[p] = "idle"

\* the call of p in flight is an update that passed a value without encoder
PassedNotJson(p) ==
  LET arg == hist[pmut[p]].arg IN
    "status" \in arg.touched /\ arg.status = NotJson

\* C21 (the failed publish): a call that returns without publishing has
\* changed no subscriber queue and not the registry.
C21_FailedPublishTouchesNothing ==
  [][\A p \in Producers :
       (CallReturns(p) /\ published' = published)
         => (queue' = queue /\ subscribers' = subscribers)]_vars

\* C21 (the later calls): only the update that passed the unencodable value
\* returns without publishing; every other update/add_log call publishes its
\* event, which is put in every registered queue with room.
C21_LaterCallsPublish ==
  [][\A p \in Producers :
       (CallReturns(p) /\ ~PassedNotJson(p)) =>
         /\ Len(published') = Len(published) + 1
         /\ published'[Len(published')].mut = pmut[p]
         /\ \A v \in Viewers :
              (InSeq(v, subscribers) /\ ~QueueFull(queue[v])) =>
                queue'[v] = Append(queue[v], published'[Len(published')])]_vars

\* C21: a serialization failure is isolated to the one event being
\* published: the failed publish changes no subscriber queue and not the
\* registry, and the event of every later update/add_log call is still
\* published to all subscribers.
C21_SerializationFailureIsolated ==
  [][\A p \in Producers :
       CallReturns(p) =>
         IF published' = published
         THEN queue' = queue /\ subscribers' = subscribers /\ PassedNotJson(p)
         ELSE /\ Len(published') = Len(published) + 1
              /\ published'[Len(published')].mut = pmut[p]
              /\ \A v \in Viewers :
                   (InSeq(v, subscribers) /\ ~QueueFull(queue[v])) =>
                     queue'[v] =
                       Append(queue[v], published'[Len(published')])]_vars

\* C22: the events ever put in a subscriber's queue are a contiguous run of
\* the publish order that starts with the first event published after its
\* subscribe(): once an event was not put in its queue, none is later.
C22_EnqueuedContiguousRun ==
  \A v \in Viewers :
    Streaming(v) =>
      /\ vmark[v].sub + Len(Delivered(v)) <= Len(published)
      /\ Delivered(v) =
           SubSeq(published, vmark[v].sub + 1,
                  vmark[v].sub + Len(Delivered(v)))

\* a subscriber was dropped, has since drained part of its queue, and two
\* or more events were published that were not put in its queue
C22_Witness ==
  \E v \in Viewers :
    /\ Streaming(v) /\ vmark[v].dropped
    /\ Len(received[v]) >= 1 /\ Len(queue[v]) < QueueCap
    /\ Len(published) >= vmark[v].sub + Len(Delivered(v)) + 2

\* a thread is about to acquire the lock: _send_event, get_logs, subscribe,
\* unsubscribe (update and add_log take it in their first step)
ProducerAtLock(p) == ppc[p] = "send"
ViewerAtLock(v) == vpc[v] \in {"get_logs", "subscribe", "unsubscribe"}

\* C23: the lock is held across steps only by a producer inside add_log,
\* between append and trim: never by a handler waiting on its queue or
\* writing to its connection, never by a thread about to acquire it again;
\* the holder can always go on to release it, and when the lock is free
\* every thread about to acquire it can, so no interleaving deadlocks.
C23_NoLockDeadlock ==
  /\ lock \in {"free"} \cup Producers
  /\ \A p \in Producers :
       lock = p => (ppc[p] = "log_trim" /\ ENABLED AddLogTrim(p))
  /\ \A p \in Producers :
       (ProducerAtLock(p) /\ lock = "free") => ENABLED SendEvent(p)
  /\ \A v \in Viewers :
       (ViewerAtLock(v) /\ lock = "free") =>
         ENABLED (GetLogsCall(v) \/ Subscribe(v) \/ Unsubscribe(v))

\* one producer holds the lock inside add_log while the other producer and a
\* handler are both about to acquire it
C23_Witness ==
  \E p, q \in Producers : \E v \in Viewers :
    lock = p /\ ProducerAtLock(q) /\ ViewerAtLock(v)

====
